---------------------------- MODULE Spec2Model ----------------------------
(***************************************************************************)
(* A model of bevy_easy_portals: the portal camera lifecycle               *)
(* (setup_portal_camera / despawn_portal_camera / setup_portal), the       *)
(* per-frame transform and frustum systems, and the PostUpdate schedule    *)
(* the plugins configure around the host's transform propagation,          *)
(* frustum recompute and visibility check.                                 *)
(*                                                                         *)
(* src/ holds two revisions of the camera code: src/src/camera.rs          *)
(* (PortalCameraPlugin) and the older monolithic src/src/lib.rs            *)
(* (PortalPlugin).  The variable `plugin` says which of the two is         *)
(* installed in the App; every system below is translated from the         *)
(* revision that `plugin` names.                                           *)
(*                                                                         *)
(* Lengths are fixed-point: one model unit is a quarter of a world unit,   *)
(* so the basic example's portal at x = -1.5 is at x = -6 here.            *)
(* Rotations are exact signed-permutation matrices (quarter turns).        *)
(***************************************************************************)
EXTENDS Integers, FiniteSets, Sequences, TLC

(* ------------------------------ bounds -------------------------------- *)

\* secondary cameras that may ever be spawned (entity ids are never reused)
MaxCameras == 2
\* images that may ever be added to Assets<Image>
MaxImages == 2

(* --------------------------- program constants ------------------------ *)

\* Camera::order given to the secondary camera by setup_portal_camera
CameraOrder == 100
\* Camera::order given to the secondary camera by lib.rs's setup_portal
LibCameraOrder == -1
\* Camera::order of the primary camera the examples spawn: Camera { .., ..default() }
DefaultOrder == 0

(* ------------------------------ vectors ------------------------------- *)

VAdd(a, b) == <<a[1] + b[1], a[2] + b[2], a[3] + b[3]>>
VSub(a, b) == <<a[1] - b[1], a[2] - b[2], a[3] - b[3]>>
VNeg(a) == <<0 - a[1], 0 - a[2], 0 - a[3]>>
VScale(k, a) == <<k * a[1], k * a[2], k * a[3]>>
\* exact on the even coordinates the model uses
VDiv(a, k) == <<a[1] \div k, a[2] \div k, a[3] \div k>>
Dot(a, b) == a[1] * b[1] + a[2] * b[2] + a[3] * b[3]

\* 3x3 matrices as three rows
MatVec(m, v) == <<Dot(m[1], v), Dot(m[2], v), Dot(m[3], v)>>
Col(m, j) == <<m[1][j], m[2][j], m[3][j]>>
MatMul(a, b) ==
    [i \in 1..3 |-> <<Dot(a[i], Col(b, 1)), Dot(a[i], Col(b, 2)), Dot(a[i], Col(b, 3))>>]
\* Quat::inverse of a unit quaternion: the transpose of its matrix
RotInverse(r) == <<Col(r, 1), Col(r, 2), Col(r, 3)>>

RotI == << <<1, 0, 0>>, <<0, 1, 0>>, <<0, 0, 1>> >>
RotY90 == << <<0, 0, 1>>, <<0, 1, 0>>, <<0 - 1, 0, 0>> >>
RotX90 == << <<1, 0, 0>>, <<0, 0, 0 - 1>>, <<0, 1, 0>> >>
RotY180 == MatMul(RotY90, RotY90)

\* Transform / GlobalTransform: translation, rotation, uniform scale
Xf(t, r, s) == [t |-> t, r |-> r, s |-> s]

\* GlobalTransform::transform_point
transform_point(g, p) == VAdd(MatVec(g.r, VScale(g.s, p)), g.t)
\* GlobalTransform::affine().inverse().transform_point3
inverse_transform_point3(g, p) == VDiv(MatVec(RotInverse(g.r), VSub(p, g.t)), g.s)
\* Transform::forward / GlobalTransform::forward: rotation * Vec3::NEG_Z
forward(g) == MatVec(g.r, <<0, 0, 0 - 1>>)

(* ------------------------------ entities ------------------------------ *)

\* the scene of examples/teleport.rs: two portal entities, each with the
\* target entity its Portal names
PortalEnts == {"portal_a", "portal_b"}
Targets == {"target_a", "target_b"}
\* the targets user code despawns and spawns again during a run
Despawnable == {"target_a"}
CamIds == 1..MaxCameras
\* the physical size of the primary window and of a camera's own viewport:
\* the model tells a size from no size ("none") and holds all sizes equal
Sizes == {"size"}
\* the physical sizes the windowing host resizes the primary window between
WindowSizes == {"size", "wide"}
\* the systems of the PreUpdate schedule
PreUpdateSystems == {"ResizeImage", "UpdateMaterials"}
\* the Portal values user code attaches: Portal::new(primary_camera, target)
\* with_cull_mode / with_flip_near_plane_normal; primary_camera names the
\* primary entity ("prim") or an entity that does not exist ("nowhere")
PortalArgs(e) ==
    IF e = "portal_a"
        THEN { [primary_camera |-> "prim", target |-> "target_b",
                cull_mode |-> "Back", flip |-> FALSE],
               [primary_camera |-> "nowhere", target |-> "target_b",
                cull_mode |-> "Back", flip |-> FALSE] }
        ELSE { [primary_camera |-> "prim", target |-> "target_a",
                cull_mode |-> "None", flip |-> TRUE] }
Plugins == {"PortalCameraPlugin", "PortalPlugin"}
Systems == {"Propagate", "UpdateTransform", "HostUpdateFrusta", "UpdateFrusta",
            "CheckVisibility"}

\* the scene: where the portal surfaces and the targets stand
PortalPose(e) ==
    IF e = "portal_a" THEN Xf(<<0 - 6, 0, 0>>, RotI, 1) ELSE Xf(<<4, 0, 0>>, RotY90, 1)
TargetPose(t) ==
    IF t = "target_b" THEN Xf(<<0, 0, 8>>, RotI, 1) ELSE Xf(<<0, 4, 0>>, RotX90, 1)
\* the poses the primary camera is moved between
PrimPoses ==
    { Xf(<<0, 0, 0>>, RotI, 1), Xf(<<0 - 6, 0, 0 - 4>>, RotY90, 1),
      Xf(<<2, 0, 12>>, RotX90, 1),
      \* on a portal surface, with its orientation
      Xf(<<4, 0, 0>>, RotY90, 1), Xf(<<0, 0, 0 - 4>>, RotX90, 2) }
\* poses a portal surface may be placed at; the first is examples/basic.rs
MathPortalPoses ==
    { Xf(<<0 - 6, 0, 0>>, RotI, 1), Xf(<<4, 0, 0>>, RotY90, 1),
      Xf(<<0, 0, 0 - 4>>, RotX90, 2), Xf(<<2, 2, 0>>, RotY180, 1) }
\* poses a target may be placed at; the first is examples/basic.rs
MathTargetPoses ==
    { Xf(<<0, 0, 8>>, RotI, 1), Xf(<<0, 4, 0>>, RotX90, 1),
      Xf(<<0 - 2, 0, 4>>, RotY90, 2) }

VARIABLES
    plugin,      \* which revision's plugin the App was built with
    alive,       \* portal entities not yet despawned
    portal,      \* [entities carrying Portal -> the Portal component]
    pxf,         \* [PortalEnts -> GlobalTransform of the portal entity]
    portalImage, \* [entities carrying PortalImage -> image handle]
    material,    \* [entities carrying MeshMaterial3d<PortalMaterial> -> material]
    camera,      \* [live secondary camera entities -> their components]
    nextCam,     \* the id the next spawned camera entity gets
    images,      \* Assets<Image>: [handles handed out -> size of the image, or
                 \* "removed" once user code took the image out of the pool]
    primCam,     \* Camera component of the primary entity: <<>> or <<[viewport, order]>>
    primXf,      \* Transform of the primary entity
    primGxf,     \* GlobalTransform of the primary entity
    window,      \* physical size of the primary window, "none" when there is none
    target,      \* [targets that have a GlobalTransform -> it]
    ran,         \* PostUpdate systems that already ran in the current frame
    culled,      \* [cameras -> the near half-space check_visibility last culled with]
    wrote,       \* cameras whose near half-space update_portal_camera_frusta wrote this frame
    log,         \* the error! line of the last operation, "" when none
    last,        \* "insert" when the last operation inserted a Portal over one
    panicked,    \* a system unwrapped an Err/None: the App is gone
    resized,     \* a WindowResized event is waiting for this frame's readers
    pre,         \* PreUpdate systems that already ran in the current frame
    marked,      \* entities whose PortalMaterial asset was marked changed this frame
    prev,        \* history: what the previous frame's frustum pass wrote, and the
                 \* primary and target GlobalTransforms it read
    trip,        \* history: the image pool before a window resize, and whether
                 \* the window has since been resized back
    pointer,     \* [entities carrying PointerId and PointerLocation ->
                 \*  [id, target]]
    hover_map,   \* HoverMap: the (pointer, entity) pairs hovered this frame
    pointer_state, \* PointerState: the (pointer, entity) pairs being dragged
    dragged_last_frame, \* the Local of portal_picking
    pointer_inputs, \* Events<PointerInput>: the events of the older and of the
                 \* newer buffer that portal_picking's reader has not read
    portal_events, \* Events<PortalInput>: the events of the older and of the
                 \* newer buffer that portal_inputs' reader has not read
    stage,       \* how many of the picking sets ran in the current frame
    picked       \* history: the pairs dragged at the last run of portal_picking,
                 \* the events it sent while they are not delivered, and how
                 \* many frames have begun since

vars == <<plugin, alive, portal, pxf, portalImage, material, camera, nextCam, images,
          primCam, primXf, primGxf, window, target, ran, culled, wrote, log,
          last, panicked, resized, pre, marked, prev, trip, pointer, hover_map,
          pointer_state, dragged_last_frame, pointer_inputs, portal_events, stage,
          picked>>

\* the state of the PreUpdate schedule and its event readers
preVars == <<resized, pre, marked>>
\* the history variables: no system of the program reads them
histVars == <<prev, trip>>
\* the state of the pointers, of the picking schedule and of its events
pickVars == <<hover_map, pointer_state, dragged_last_frame, pointer_inputs,
              portal_events, stage, picked>>

(* ------------------------------ helpers ------------------------------- *)

\* f with x mapped to v (x added to the domain when new)
Put(f, x, v) == [y \in DOMAIN f \cup {x} |-> IF y = x THEN v ELSE f[y]]
\* f without x
Drop(f, x) == [y \in DOMAIN f \ {x} |-> f[y]]
NoneYet == [y \in {} |-> 0]

\* no frame has run yet
NoFrame == [near |-> NoneYet, prim |-> Xf(<<0, 0, 0>>, RotI, 1), target |-> NoneYet]
\* no window resize is being followed
NoTrip ==
    [stage |-> 0, window |-> "none", images |-> NoneYet, portal |-> NoneYet, nextCam |-> 0]

\* HalfSpace: normal and distance; `by` records which system wrote it
HalfSpace(by, n, d) == [by |-> by, n |-> n, d |-> d]
\* Frustum of a freshly spawned camera: Frustum::default()
DefaultFrustum == [near |-> HalfSpace("default", <<0, 0, 0>>, 0), rest |-> <<>>]
\* the host's update_frusta: all six half-spaces from the camera's world pose
HostFrustum(g) ==
    [near |-> HalfSpace("host", forward(g), 0 - Dot(g.t, forward(g))), rest |-> <<g>>]

\* Portal::new(..).with_cull_mode(..).with_flip_near_plane_normal(..)
PortalNew(a) ==
    [primary_camera |-> a.primary_camera, target |-> a.target,
     cull_mode |-> a.cull_mode, flip_near_plane_normal |-> a.flip,
     linked_camera |-> 0]

\* the Camera user code gives the primary entity, with the viewport v
PrimaryCamera(v) == [viewport |-> v, order |-> DefaultOrder]

\* primary_camera_query.get(portal.primary_camera).is_ok()
PrimaryResolves(ref) == ref = "prim" /\ primCam # <<>>
\* the entity `ref` has a GlobalTransform
PrimaryHasTransform(ref) == ref = "prim"

\* PortalImages::get_viewport_size / ViewportSize::get_viewport_size: the
\* camera's viewport if it has one, else the size of the primary window it
\* renders to; 0 is None
get_viewport_size(cam) ==
    IF cam.viewport # "none" THEN cam.viewport ELSE window

\* a setup that does not look at the viewport size
SetupErrorIgnoresViewport(p) ==
    IF ~PrimaryResolves(p.primary_camera) THEN "no_primary"
    ELSE IF p.target \notin DOMAIN target THEN "no_target"
    ELSE ""

\* which early return setup takes: "" when it runs to the end
SetupError(p) ==
    IF ~PrimaryResolves(p.primary_camera) THEN "no_primary"
    ELSE IF get_viewport_size(primCam[1]) = "none" THEN "no_image"
    ELSE IF p.target \notin DOMAIN target THEN "no_target"
    ELSE ""

\* a setup that adds the image once nothing can make it return early
SetupAllocatesOnSuccess(p) == SetupError(p) = ""

\* whether setup got as far as images.add(image)
SetupAllocates(p) ==
    /\ PrimaryResolves(p.primary_camera)
    /\ get_viewport_size(primCam[1]) # "none"

\* the bundle setup spawns for the secondary camera
SpawnedCamera(e, p, h, order) ==
    [owner |-> e, image |-> h, order |-> order,
     transform |-> target[p.target], global |-> target[p.target],
     frustum |-> DefaultFrustum, tchanged |-> TRUE, gchanged |-> TRUE]

\* material.rs spawn_material, the observer of On<Add, PortalImage>:
\* insert_if_new keeps a material the entity already carries
spawn_material(mat, e, p, h) ==
    IF e \in DOMAIN mat THEN mat
    ELSE Put(mat, e, [base_color_texture |-> h, cull_mode |-> p.cull_mode])

\* the pointers of the windowing host, and the PointerId::Custom(Uuid::new_v4())
\* add_pointer gives the entity e: a fresh id, which no other pointer has
HostPointers == {"mouse", "touch"}
Custom(e) == <<"Custom", e>>
\* picking.rs add_pointer, the observer of On<Add, PortalImage>: PointerId and
\* PointerLocation, whose target is the image of the PortalImage
add_pointer(ptr, e, h) == Put(ptr, e, [id |-> Custom(e), target |-> h])

\* a spawn that hands out the id of the first camera again
ReusedCam == IF nextCam \in CamIds THEN 1 ELSE 0

\* commands.spawn hands out an entity id that was never used before; 0 when
\* the model's cap is reached
FreshCam == IF nextCam \in CamIds THEN nextCam ELSE 0
\* images.add hands out a handle that was never handed out before
FreshImg ==
    IF Cardinality(DOMAIN images) < MaxImages
        THEN Cardinality(DOMAIN images) + 1 ELSE 0

\* camera.rs setup_portal_camera (observer of On<Add, Portal>) followed by
\* the flush of its commands and the observers that flush triggers
setup_portal_camera(e, p) ==
    LET err == SetupError(p) IN
    /\ log' = err
    /\ images' = IF SetupAllocates(p)
                    THEN Put(images, FreshImg, get_viewport_size(primCam[1]))
                    ELSE images
    /\ IF err = ""
          THEN /\ portal' = Put(portal, e, [p EXCEPT !.linked_camera = FreshCam])
               /\ camera' = Put(camera, FreshCam, SpawnedCamera(e, p, FreshImg, CameraOrder))
               /\ nextCam' = nextCam + 1
               /\ portalImage' = Put(portalImage, e, FreshImg)
               \* On<Add, PortalImage> fires only if the entity had none
               /\ material' = IF e \in DOMAIN portalImage
                                 THEN material
                                 ELSE spawn_material(material, e, p, FreshImg)
               /\ pointer' = IF e \in DOMAIN portalImage
                                THEN pointer
                                ELSE add_pointer(pointer, e, FreshImg)
          ELSE /\ portal' = Put(portal, e, p)
               /\ UNCHANGED <<camera, nextCam, portalImage, material, pointer>>

\* lib.rs setup_portal (observer of OnAdd Portal) and the flush of its commands
setup_portal(e, p) ==
    LET err == SetupError(p) IN
    /\ log' = err
    /\ images' = IF SetupAllocates(p)
                    THEN Put(images, FreshImg, get_viewport_size(primCam[1]))
                    ELSE images
    /\ IF err = ""
          THEN /\ portal' = Put(portal, e, [p EXCEPT !.linked_camera = FreshCam])
               /\ camera' = Put(camera, FreshCam, SpawnedCamera(e, p, FreshImg, LibCameraOrder))
               /\ nextCam' = nextCam + 1
               /\ material' = Put(material, e, [base_color_texture |-> FreshImg,
                                               cull_mode |-> p.cull_mode])
               /\ UNCHANGED <<portalImage, pointer>>
          ELSE /\ portal' = Put(portal, e, p)
               /\ UNCHANGED <<camera, nextCam, portalImage, material, pointer>>

\* a Remove observer that despawns nothing
despawn_portal_camera_keeps(e) == camera

\* camera.rs despawn_portal_camera (observer of On<Remove, Portal>) and the
\* flush of its command: the cameras left once the Portal on e is removed.
\* lib.rs registers no Remove observer.
despawn_portal_camera(e) ==
    IF plugin = "PortalCameraPlugin" /\ portal[e].linked_camera # 0
        THEN Drop(camera, portal[e].linked_camera)
        ELSE camera

(* --------------------------- user operations -------------------------- *)

Idle == ran = {} /\ ~panicked

frameVars == <<ran, culled, wrote>>
envVars == <<primCam, primXf, primGxf, window, target, pxf>>

\* insert a Portal on an entity that carries none: On<Add, Portal> fires
Attach(e, a) ==
    /\ Idle
    /\ e \in alive /\ e \notin DOMAIN portal
    /\ FreshCam # 0 /\ FreshImg # 0
    /\ IF plugin = "PortalCameraPlugin"
          THEN setup_portal_camera(e, PortalNew(a))
          ELSE setup_portal(e, PortalNew(a))
    /\ last' = "other"
    /\ UNCHANGED histVars
    /\ UNCHANGED preVars
    /\ UNCHANGED pickVars
    /\ UNCHANGED <<plugin, alive, panicked>>
    /\ UNCHANGED frameVars /\ UNCHANGED envVars

\* an insert over an existing Portal that runs setup again, as if On<Add, Portal>
\* fired for it
InsertOverRunsSetup(e, a) ==
    /\ Idle
    /\ e \in DOMAIN portal
    /\ FreshCam # 0 /\ FreshImg # 0
    /\ IF plugin = "PortalCameraPlugin"
          THEN setup_portal_camera(e, PortalNew(a))
          ELSE setup_portal(e, PortalNew(a))
    /\ last' = "insert"
    /\ UNCHANGED histVars
    /\ UNCHANGED preVars
    /\ UNCHANGED pickVars
    /\ UNCHANGED <<plugin, alive, panicked>>
    /\ UNCHANGED frameVars /\ UNCHANGED envVars

\* insert a Portal on an entity that already carries one: the component is
\* replaced; neither On<Add, Portal> nor On<Remove, Portal> fires
InsertOver(e, a) ==
    /\ Idle
    /\ e \in DOMAIN portal
    /\ portal' = Put(portal, e, PortalNew(a))
    /\ log' = ""
    /\ last' = "insert"
    /\ UNCHANGED histVars
    /\ UNCHANGED preVars
    /\ UNCHANGED pickVars
    /\ UNCHANGED <<plugin, alive, portalImage, pointer, material, camera, nextCam, images, panicked>>
    /\ UNCHANGED frameVars /\ UNCHANGED envVars

\* Portal::cull_mode is Option<Face>
CullModes == {"None", "Back", "Front"}
\* user code writes the pub field cull_mode of a Portal through a mutable
\* query: a mutation triggers no observer
SetCullMode(e, c) ==
    /\ Idle
    /\ e \in DOMAIN portal
    /\ c # portal[e].cull_mode
    /\ portal' = [portal EXCEPT ![e].cull_mode = c]
    /\ log' = ""
    /\ last' = "other"
    /\ UNCHANGED histVars
    /\ UNCHANGED preVars
    /\ UNCHANGED pickVars
    /\ UNCHANGED <<plugin, alive, portalImage, pointer, material, camera, nextCam, images, panicked>>
    /\ UNCHANGED frameVars /\ UNCHANGED envVars

\* remove::<Portal>() from the entity: On<Remove, Portal> fires first
Detach(e) ==
    /\ Idle
    /\ e \in DOMAIN portal
    /\ camera' = despawn_portal_camera(e)
    /\ portal' = Drop(portal, e)
    /\ log' = ""
    /\ last' = "other"
    /\ UNCHANGED histVars
    /\ UNCHANGED preVars
    /\ UNCHANGED pickVars
    /\ UNCHANGED <<plugin, alive, portalImage, pointer, material, nextCam, images, panicked>>
    /\ UNCHANGED frameVars /\ UNCHANGED envVars

\* despawn the portal entity: On<Remove, Portal> fires for its Portal, then
\* every component of the entity goes with it
Despawn(e) ==
    /\ Idle
    /\ e \in alive
    /\ alive' = alive \ {e}
    /\ camera' = IF e \in DOMAIN portal THEN despawn_portal_camera(e) ELSE camera
    /\ portal' = Drop(portal, e)
    /\ portalImage' = Drop(portalImage, e)
    /\ material' = Drop(material, e)
    /\ pointer' = Drop(pointer, e)
    /\ log' = ""
    /\ last' = "other"
    /\ UNCHANGED histVars
    /\ UNCHANGED preVars
    /\ UNCHANGED pickVars
    /\ UNCHANGED <<plugin, nextCam, images, panicked>>
    /\ UNCHANGED frameVars /\ UNCHANGED envVars

(* ------------------- the world outside the plugin --------------------- *)

\* user code: the primary entity gets a Camera (with or without a viewport)
InsertPrimaryCamera(v) ==
    /\ Idle
    /\ primCam = <<>>
    /\ primCam' = <<PrimaryCamera(v)>>
    /\ log' = ""
    /\ last' = "other"
    /\ UNCHANGED histVars
    /\ UNCHANGED preVars
    /\ UNCHANGED pickVars
    /\ UNCHANGED <<plugin, alive, portal, portalImage, pointer, material, camera, nextCam, images,
                   panicked>>
    /\ UNCHANGED frameVars /\ UNCHANGED <<primXf, primGxf, window, target, pxf>>

\* user code: the primary entity loses its Camera
RemovePrimaryCamera ==
    /\ Idle
    /\ primCam # <<>>
    /\ primCam' = <<>>
    /\ log' = ""
    /\ last' = "other"
    /\ UNCHANGED histVars
    /\ UNCHANGED preVars
    /\ UNCHANGED pickVars
    /\ UNCHANGED <<plugin, alive, portal, portalImage, pointer, material, camera, nextCam, images,
                   panicked>>
    /\ UNCHANGED frameVars /\ UNCHANGED <<primXf, primGxf, window, target, pxf>>

\* the windowing host: the primary window is opened with size s or
\* closed (s is "none")
SetWindow(s) ==
    /\ Idle
    /\ (window = "none") # (s = "none")
    /\ window' = s
    /\ log' = ""
    /\ last' = "other"
    /\ UNCHANGED histVars
    /\ UNCHANGED preVars
    /\ UNCHANGED pickVars
    /\ UNCHANGED <<plugin, alive, portal, portalImage, pointer, material, camera, nextCam, images,
                   panicked>>
    /\ UNCHANGED frameVars /\ UNCHANGED <<primCam, primXf, primGxf, target, pxf>>

\* user code moves the primary camera: its Transform changes, its
\* GlobalTransform follows at the next transform propagation
MovePrimary(x) ==
    /\ Idle
    /\ x # primXf
    /\ primXf' = x
    /\ log' = ""
    /\ last' = "other"
    /\ UNCHANGED histVars
    /\ UNCHANGED preVars
    /\ UNCHANGED pickVars
    /\ UNCHANGED <<plugin, alive, portal, portalImage, pointer, material, camera, nextCam, images,
                   panicked>>
    /\ UNCHANGED frameVars /\ UNCHANGED <<primCam, primGxf, window, target, pxf>>

\* user code has moved, turned or rescaled the target entity t, and the
\* transform propagation of the frame before gave it the GlobalTransform x
MoveTarget(t, x) ==
    /\ Idle
    /\ t \in DOMAIN target
    /\ x # target[t]
    /\ target' = Put(target, t, x)
    /\ log' = ""
    /\ last' = "other"
    /\ UNCHANGED histVars
    /\ UNCHANGED preVars
    /\ UNCHANGED pickVars
    /\ UNCHANGED <<plugin, alive, portal, portalImage, pointer, material, camera, nextCam, images,
                   panicked>>
    /\ UNCHANGED frameVars /\ UNCHANGED <<primCam, primXf, primGxf, window, pxf>>

\* user code: the target entity is despawned / loses its GlobalTransform, or
\* gets it (back)
ToggleTarget(t) ==
    /\ Idle
    /\ target' = IF t \in DOMAIN target THEN Drop(target, t)
                 ELSE Put(target, t, TargetPose(t))
    /\ log' = ""
    /\ last' = "other"
    /\ UNCHANGED histVars
    /\ UNCHANGED preVars
    /\ UNCHANGED pickVars
    /\ UNCHANGED <<plugin, alive, portal, portalImage, pointer, material, camera, nextCam, images,
                   panicked>>
    /\ UNCHANGED frameVars /\ UNCHANGED <<primCam, primXf, primGxf, window, pxf>>

\* user code: images.remove(h) takes an image out of the pool, whoever
\* still holds a handle to it
RemoveImage(h) ==
    /\ Idle
    /\ h \in DOMAIN images /\ images[h] # "removed"
    /\ images' = Put(images, h, "removed")
    /\ log' = ""
    /\ last' = "other"
    /\ UNCHANGED histVars
    /\ UNCHANGED preVars
    /\ UNCHANGED pickVars
    /\ UNCHANGED <<plugin, alive, portal, portalImage, pointer, material, camera, nextCam,
                   panicked>>
    /\ UNCHANGED frameVars /\ UNCHANGED envVars

\* the windowing host: the primary window is closed while the
\* WindowResized event of its last resize waits for its readers
CloseWindow ==
    /\ Idle /\ pre = {}
    /\ window # "none" /\ resized
    /\ window' = "none"
    /\ log' = ""
    /\ last' = "other"
    /\ UNCHANGED histVars
    /\ UNCHANGED preVars
    /\ UNCHANGED pickVars
    /\ UNCHANGED <<plugin, alive, portal, portalImage, pointer, material, camera, nextCam, images,
                   panicked>>
    /\ UNCHANGED frameVars /\ UNCHANGED <<primCam, primXf, primGxf, target, pxf>>

\* some component holds a strong handle to the image h: a PortalImage, a
\* material's texture, a camera's render target or a pointer location
Referenced(h) ==
    \/ \E e \in DOMAIN portalImage : portalImage[e] = h
    \/ \E e \in DOMAIN material : material[e].base_color_texture = h
    \/ \E c \in DOMAIN camera : camera[c].image = h
    \/ \E e \in DOMAIN pointer : pointer[e].target = h

\* the host's asset tracking, once per frame: an image whose last strong
\* handle was dropped, as the image_handle of a setup that returned early
\* is, leaves the pool
RunTrackAssets ==
    /\ Idle
    /\ images' = [h \in DOMAIN images |->
                     IF Referenced(h) THEN images[h] ELSE "removed"]
    /\ log' = ""
    /\ last' = "track"
    /\ UNCHANGED histVars
    /\ UNCHANGED preVars
    /\ UNCHANGED pickVars
    /\ UNCHANGED <<plugin, alive, portal, portalImage, pointer, material, camera, nextCam,
                   panicked>>
    /\ UNCHANGED frameVars /\ UNCHANGED envVars

\* code outside the plugin despawns a secondary camera entity directly
DespawnCamera(c) ==
    /\ Idle
    /\ c \in DOMAIN camera
    /\ camera' = Drop(camera, c)
    /\ log' = ""
    /\ last' = "other"
    /\ UNCHANGED histVars
    /\ UNCHANGED preVars
    /\ UNCHANGED pickVars
    /\ UNCHANGED <<plugin, alive, portal, portalImage, pointer, material, nextCam, images,
                   panicked>>
    /\ UNCHANGED frameVars /\ UNCHANGED envVars

\* the history of a resize: a resize from a state with no event waiting
\* starts a trip, the resize back to the size it started from completes it
TripAfter(s) ==
    IF trip.stage = 1 /\ s = trip.window /\ portal = trip.portal
        THEN [trip EXCEPT !.stage = 2]
    ELSE IF ~resized
        THEN [stage |-> 1, window |-> window, images |-> images, portal |-> portal,
              nextCam |-> nextCam]
    ELSE NoTrip

\* the windowing host, between two frames: the primary window gets the
\* physical size s and a WindowResized event is sent
ResizeWindow(s) ==
    /\ Idle /\ pre = {}
    /\ window # "none" /\ s # window
    /\ window' = s
    /\ resized' = TRUE
    /\ trip' = TripAfter(s)
    /\ log' = ""
    /\ last' = "other"
    /\ UNCHANGED <<plugin, alive, portal, portalImage, pointer, material, camera, nextCam, images,
                   panicked>>
    /\ UNCHANGED frameVars /\ UNCHANGED <<primCam, primXf, primGxf, target, pxf>>
    /\ UNCHANGED <<pre, marked, prev>>
    /\ UNCHANGED pickVars

(* ------------------------ the PreUpdate schedule ---------------------- *)

\* the PreUpdate systems the installed plugins add: resize_portal_images by
\* both revisions, update_materials by PortalMaterialPlugin, which goes
\* with PortalCameraPlugin
PreSystems ==
    IF plugin = "PortalCameraPlugin" THEN PreUpdateSystems ELSE {"ResizeImage"}
\* material.rs PortalMaterialPlugin::build: update_materials.after(ResizeImage)
PreEdges == { <<"ResizeImage", "UpdateMaterials">> }
CanRunPre(s) ==
    /\ ~panicked
    /\ ran = {}
    /\ s \in PreSystems \ pre
    /\ \A a \in PreSystems : <<a, s>> \in PreEdges => a \in pre
\* PreUpdate is over: Main runs PostUpdate after it
PreUpdateDone == pre = PreSystems
\* user code runs outside the PreUpdate schedule
OutsidePreUpdate == pre = {} \/ PreUpdateDone

\* a resize pass that gives the images the size of the camera's viewport
resize_portal_images_to_viewport ==
    [h \in DOMAIN images |->
        IF /\ resized /\ primCam # <<>> /\ images[h] # "removed"
           /\ \E e \in DOMAIN portalImage : portalImage[e] = h
            THEN get_viewport_size(primCam[1]) ELSE images[h]]

\* resize_portal_images of both revisions, window_query.get(event.window).unwrap():
\* the window of a waiting event is gone
ResizePanics == resized /\ window = "none"

\* camera.rs resize_portal_images: for each event, every image a PortalImage
\* names, and images.get_mut finds, is resized to the physical size of the
\* event's window
resize_portal_images ==
    [h \in DOMAIN images |->
        IF /\ resized /\ images[h] # "removed"
           /\ \E e \in DOMAIN portalImage : portalImage[e] = h
            THEN window ELSE images[h]]

\* lib.rs resize_portal_images: the portals the pass gets to the end of the
\* loop body for (Portal and material on the entity, linked camera alive)
LibResizeReached(e) ==
    /\ e \in DOMAIN material
    /\ portal[e].linked_camera \in DOMAIN camera
    /\ images[camera[portal[e].linked_camera].image] # "removed"
\* lib.rs resize_portal_images: for each event, the image the linked
\* camera renders to is resized to the physical size of the event's window
lib_resize_portal_images ==
    [h \in DOMAIN images |->
        IF resized /\ \E e \in DOMAIN portal :
                         LibResizeReached(e) /\ camera[portal[e].linked_camera].image = h
            THEN window ELSE images[h]]
\* lib.rs resize_portal_images, line 405: portal_materials.get_mut
lib_resize_marks ==
    IF resized THEN {e \in DOMAIN portal : LibResizeReached(e)} ELSE {}

\* an update_materials that runs whether or not an event was sent
update_materials_every_frame == {e \in DOMAIN material : e \in DOMAIN portal}

\* material.rs update_materials, run_if(on_event::<WindowResized>): the
\* entities whose material asset materials.get_mut marks changed
update_materials ==
    IF resized THEN {e \in DOMAIN material : e \in DOMAIN portal} ELSE {}

\* an update_materials that copies the Portal's cull_mode into the material
materials_after_update_synced ==
    [e \in DOMAIN material |->
        IF resized /\ e \in DOMAIN portal
            THEN [material[e] EXCEPT !.cull_mode = portal[e].cull_mode]
            ELSE material[e]]

\* material.rs update_materials: the body is `let _ = materials.get_mut(material)`,
\* which writes no field of the material
materials_after_update == material

\* PortalCameraSystems::ResizeImage
RunResizeImages ==
    /\ CanRunPre("ResizeImage")
    /\ IF ResizePanics
          THEN panicked' = TRUE /\ UNCHANGED <<images, marked>>
          ELSE /\ UNCHANGED panicked
               /\ IF plugin = "PortalCameraPlugin"
                     THEN images' = resize_portal_images /\ UNCHANGED marked
                     ELSE /\ images' = lib_resize_portal_images
                          /\ marked' = marked \cup lib_resize_marks
    /\ pre' = pre \cup {"ResizeImage"}
    /\ log' = ""
    /\ last' = "other"
    /\ UNCHANGED <<plugin, alive, portal, portalImage, pointer, material, camera, nextCam>>
    /\ UNCHANGED frameVars /\ UNCHANGED envVars
    /\ UNCHANGED resized /\ UNCHANGED histVars
    /\ UNCHANGED pickVars

\* PortalMaterialPlugin's update_materials
RunUpdateMaterials ==
    /\ CanRunPre("UpdateMaterials")
    /\ marked' = marked \cup update_materials
    /\ material' = materials_after_update
    /\ pre' = pre \cup {"UpdateMaterials"}
    /\ log' = ""
    /\ last' = "other"
    /\ UNCHANGED <<plugin, alive, portal, portalImage, pointer, camera, nextCam, images,
                   panicked>>
    /\ UNCHANGED frameVars /\ UNCHANGED envVars
    /\ UNCHANGED resized /\ UNCHANGED histVars
    /\ UNCHANGED pickVars

(* ----------------------- the PostUpdate schedule ---------------------- *)

\* the host: VisibilitySystems::UpdateFrusta runs after
\* TransformSystems::Propagate and before VisibilitySystems::CheckVisibility
HostEdges ==
    { <<"Propagate", "HostUpdateFrusta">>, <<"HostUpdateFrusta", "CheckVisibility">> }

\* the two sets configured without .chain()
CameraPluginEdgesUnchained ==
    { <<"Propagate", "UpdateTransform">>, <<"HostUpdateFrusta", "UpdateFrusta">> }

\* camera.rs PortalCameraPlugin::build, configure_sets:
\* (UpdateTransform.after(Propagate), UpdateFrusta.after(VisibilitySystems::UpdateFrusta)).chain()
CameraPluginEdges ==
    { <<"Propagate", "UpdateTransform">>,
      <<"HostUpdateFrusta", "UpdateFrusta">>,
      <<"UpdateTransform", "UpdateFrusta">> }

\* lib.rs PortalPlugin::build, add_systems:
\* (update_portal_camera_transform, update_portal_camera_frusta)
\*     .after(TransformPropagate).before(VisibilitySystems::UpdateFrusta).chain()
LibPluginEdges ==
    { <<"Propagate", "UpdateTransform">>, <<"Propagate", "UpdateFrusta">>,
      <<"UpdateTransform", "HostUpdateFrusta">>, <<"UpdateFrusta", "HostUpdateFrusta">>,
      <<"UpdateTransform", "UpdateFrusta">> }

Edges ==
    HostEdges \cup (IF plugin = "PortalCameraPlugin" THEN CameraPluginEdges
                    ELSE LibPluginEdges)

\* the executor may start a system once every system ordered before it ran
CanRun(s) ==
    /\ ~panicked
    /\ s \notin ran
    /\ \A a \in Systems : <<a, s>> \in Edges => a \in ran

(* -------------------------- transform update -------------------------- *)

\* a translation that forgets the scale of the portal surface
camera_translation_unscaled(primary, portal_transform, target_transform) ==
    transform_point(target_transform,
                    MatVec(RotInverse(portal_transform.r),
                           VSub(primary.t, portal_transform.t)))

\* a rotation that skips the step into the portal's space
camera_rotation_unrelative(primary, portal_transform, target_transform) ==
    MatMul(target_transform.r, primary.r)

\* camera.rs update_portal_camera_transform, lines 177-187
camera_translation(primary, portal_transform, target_transform) ==
    transform_point(target_transform,
                    inverse_transform_point3(portal_transform, primary.t))
camera_rotation(primary, portal_transform, target_transform) ==
    MatMul(target_transform.r, MatMul(RotInverse(portal_transform.r), primary.r))

\* lib.rs update_portal_camera_transform, lines 332-341: with_translation,
\* then rotate_around(target.translation, portal.rotation.inverse() * target.rotation)
lib_rotation(portal_transform, target_transform) ==
    MatMul(RotInverse(portal_transform.r), target_transform.r)
lib_camera_translation(primary, portal_transform, target_transform) ==
    LET translation == VAdd(VSub(primary.t, portal_transform.t), target_transform.t)
        rotation == lib_rotation(portal_transform, target_transform)
    IN VAdd(target_transform.t, MatVec(rotation, VSub(translation, target_transform.t)))
lib_camera_rotation(primary, portal_transform, target_transform) ==
    MatMul(lib_rotation(portal_transform, target_transform), primary.r)

\* camera.rs: the portal's references resolve for the transform update
TransformResolves(e) ==
    /\ PrimaryHasTransform(portal[e].primary_camera)
    /\ portal[e].target \in DOMAIN target
    /\ portal[e].linked_camera \in DOMAIN camera

\* the camera as update_portal_camera_transform leaves it for portal e
TransformWritten(e, c) ==
    LET tr == [t |-> camera_translation(primGxf, pxf[e], target[portal[e].target]),
               r |-> camera_rotation(primGxf, pxf[e], target[portal[e].target]),
               s |-> camera[c].transform.s]
    IN [camera[c] EXCEPT !.transform = tr, !.global = tr,
                         !.tchanged = TRUE, !.gchanged = TRUE]

\* camera.rs update_portal_camera_transform: one pass over all portals
update_portal_camera_transform ==
    [c \in DOMAIN camera |->
        IF \E e \in DOMAIN portal : portal[e].linked_camera = c /\ TransformResolves(e)
            THEN LET e == CHOOSE e \in DOMAIN portal :
                            portal[e].linked_camera = c /\ TransformResolves(e)
                 IN TransformWritten(e, c)
            ELSE camera[c]]

\* lib.rs: the portal passes both `continue`s of update_portal_camera_transform
LibTransformReached(e) ==
    /\ PrimaryResolves(portal[e].primary_camera)
    /\ portal[e].linked_camera # 0

\* lib.rs: an unwrap() of the pass fails for portal e
LibTransformPanics(e) ==
    /\ LibTransformReached(e)
    /\ \/ portal[e].linked_camera \notin DOMAIN camera
       \/ portal[e].target \notin DOMAIN target

LibTransformWritten(e, c) ==
    LET tr == [t |-> lib_camera_translation(primGxf, pxf[e], target[portal[e].target]),
               r |-> lib_camera_rotation(primGxf, pxf[e], target[portal[e].target]),
               s |-> primGxf.s]
    IN [camera[c] EXCEPT !.transform = tr, !.global = tr,
                         !.tchanged = TRUE, !.gchanged = TRUE]

\* lib.rs update_portal_camera_transform: one pass over all portals
lib_update_portal_camera_transform ==
    [c \in DOMAIN camera |->
        IF \E e \in DOMAIN portal : portal[e].linked_camera = c /\ LibTransformReached(e)
            THEN LET e == CHOOSE e \in DOMAIN portal :
                            portal[e].linked_camera = c /\ LibTransformReached(e)
                 IN LibTransformWritten(e, c)
            ELSE camera[c]]

(* --------------------------- frustum update --------------------------- *)

\* a frustum pass that flips behind the surface whatever the Portal's flag says
near_normal_ignores_flag(primary, portal_transform, target_transform, flip) ==
    IF Dot(VSub(portal_transform.t, primary.t), forward(portal_transform)) <= 0
        THEN VNeg(forward(target_transform))
        ELSE forward(target_transform)

\* camera.rs update_portal_camera_frusta, lines 217-230
near_normal(primary, portal_transform, target_transform, flip) ==
    IF flip /\ Dot(VSub(portal_transform.t, primary.t), forward(portal_transform)) <= 0
        THEN VNeg(forward(target_transform))
        ELSE forward(target_transform)
near_distance(target_transform, normal) == 0 - Dot(target_transform.t, normal)

\* lib.rs update_portal_camera_frusta, lines 369-371
lib_near_normal(target_transform) == VNeg(forward(target_transform))
lib_near_distance(target_transform, portal_camera_transform, normal) ==
    0 - Dot(VSub(target_transform.t, portal_camera_transform.t), normal)

FrustaResolves(e) ==
    /\ portal[e].linked_camera \in DOMAIN camera
    /\ PrimaryHasTransform(portal[e].primary_camera)
    /\ portal[e].target \in DOMAIN target

\* the half-space update_portal_camera_frusta stores in half_spaces[4]
NearWritten(e) ==
    LET n == near_normal(primGxf, pxf[e], target[portal[e].target],
                         portal[e].flip_near_plane_normal)
    IN HalfSpace("portal", n, near_distance(target[portal[e].target], n))

\* a frustum pass that builds a new Frustum around the half-space it computed
update_portal_camera_frusta_rebuilds ==
    [c \in DOMAIN camera |->
        IF \E e \in DOMAIN portal : portal[e].linked_camera = c /\ FrustaResolves(e)
            THEN LET e == CHOOSE e \in DOMAIN portal :
                            portal[e].linked_camera = c /\ FrustaResolves(e)
                 IN [camera[c] EXCEPT !.frustum = [near |-> NearWritten(e), rest |-> <<>>]]
            ELSE camera[c]]

\* camera.rs update_portal_camera_frusta: one pass over all portals
update_portal_camera_frusta ==
    [c \in DOMAIN camera |->
        IF \E e \in DOMAIN portal : portal[e].linked_camera = c /\ FrustaResolves(e)
            THEN LET e == CHOOSE e \in DOMAIN portal :
                            portal[e].linked_camera = c /\ FrustaResolves(e)
                 IN [camera[c] EXCEPT !.frustum.near = NearWritten(e)]
            ELSE camera[c]]

LibFrustaPanics(e) ==
    /\ portal[e].linked_camera # 0
    /\ \/ portal[e].linked_camera \notin DOMAIN camera
       \/ portal[e].target \notin DOMAIN target

LibNearWritten(e) ==
    LET n == lib_near_normal(target[portal[e].target])
    IN HalfSpace("portal", n,
                 lib_near_distance(target[portal[e].target],
                                   camera[portal[e].linked_camera].global, n))

\* lib.rs update_portal_camera_frusta: one pass over all portals
lib_update_portal_camera_frusta ==
    [c \in DOMAIN camera |->
        IF \E e \in DOMAIN portal : portal[e].linked_camera = c
            THEN LET e == CHOOSE e \in DOMAIN portal : portal[e].linked_camera = c
                 IN [camera[c] EXCEPT !.frustum.near = LibNearWritten(e)]
            ELSE camera[c]]

\* the cameras whose near half-space a frustum pass just wrote, with the value
Written(cams) ==
    LET cs == {c \in DOMAIN cams : \E e \in DOMAIN portal :
                    /\ portal[e].linked_camera = c
                    /\ (plugin = "PortalCameraPlugin" => FrustaResolves(e))}
    IN [c \in cs |-> cams[c].frustum.near]

(* ------------------------------ systems ------------------------------- *)

worldVars == <<plugin, alive, portal, portalImage, pointer, material, nextCam, images>>

\* the host's transform propagation: GlobalTransform from a changed Transform
RunPropagate ==
    /\ CanRun("Propagate")
    /\ primGxf' = primXf
    /\ camera' = [c \in DOMAIN camera |->
                    IF camera[c].tchanged
                        THEN [camera[c] EXCEPT !.global = camera[c].transform,
                                               !.tchanged = FALSE, !.gchanged = TRUE]
                        ELSE camera[c]]
    /\ ran' = ran \cup {"Propagate"}
    /\ log' = ""
    /\ last' = "other"
    /\ UNCHANGED histVars
    /\ UNCHANGED preVars
    /\ UNCHANGED pickVars
    /\ UNCHANGED worldVars
    /\ UNCHANGED <<primCam, primXf, window, target, pxf, culled, wrote, panicked>>

\* PortalCameraSystems::UpdateTransform
RunUpdateTransform ==
    /\ CanRun("UpdateTransform")
    /\ IF plugin = "PortalCameraPlugin"
          THEN camera' = update_portal_camera_transform /\ UNCHANGED panicked
          ELSE IF \E e \in DOMAIN portal : LibTransformPanics(e)
                  THEN panicked' = TRUE /\ UNCHANGED camera
                  ELSE camera' = lib_update_portal_camera_transform /\ UNCHANGED panicked
    /\ ran' = ran \cup {"UpdateTransform"}
    /\ log' = ""
    /\ last' = "other"
    /\ UNCHANGED histVars
    /\ UNCHANGED preVars
    /\ UNCHANGED pickVars
    /\ UNCHANGED worldVars /\ UNCHANGED envVars /\ UNCHANGED <<culled, wrote>>

\* the host's update_frusta: recomputes the frustum of every camera whose
\* GlobalTransform changed since it last ran
RunHostUpdateFrusta ==
    /\ CanRun("HostUpdateFrusta")
    /\ camera' = [c \in DOMAIN camera |->
                    IF camera[c].gchanged
                        THEN [camera[c] EXCEPT !.frustum = HostFrustum(camera[c].global),
                                               !.gchanged = FALSE]
                        ELSE camera[c]]
    /\ ran' = ran \cup {"HostUpdateFrusta"}
    /\ log' = ""
    /\ last' = "other"
    /\ UNCHANGED histVars
    /\ UNCHANGED preVars
    /\ UNCHANGED pickVars
    /\ UNCHANGED worldVars /\ UNCHANGED envVars /\ UNCHANGED <<culled, wrote, panicked>>

\* PortalCameraSystems::UpdateFrusta
RunUpdateFrusta ==
    /\ CanRun("UpdateFrusta")
    /\ IF plugin = "PortalCameraPlugin"
          THEN /\ camera' = update_portal_camera_frusta
               /\ wrote' = Written(camera')
               /\ UNCHANGED panicked
          ELSE IF \E e \in DOMAIN portal : LibFrustaPanics(e)
                  THEN panicked' = TRUE /\ UNCHANGED <<camera, wrote>>
                  ELSE /\ camera' = lib_update_portal_camera_frusta
                       /\ wrote' = Written(camera')
                       /\ UNCHANGED panicked
    /\ ran' = ran \cup {"UpdateFrusta"}
    /\ log' = ""
    /\ last' = "other"
    /\ UNCHANGED histVars
    /\ UNCHANGED preVars
    /\ UNCHANGED pickVars
    /\ UNCHANGED worldVars /\ UNCHANGED envVars /\ UNCHANGED culled

\* the host's check_visibility: every camera culls with its current frustum
RunCheckVisibility ==
    /\ CanRun("CheckVisibility")
    /\ culled' = [c \in DOMAIN camera |-> camera[c].frustum.near]
    /\ ran' = ran \cup {"CheckVisibility"}
    /\ log' = ""
    /\ last' = "other"
    /\ UNCHANGED histVars
    /\ UNCHANGED preVars
    /\ UNCHANGED pickVars
    /\ UNCHANGED worldVars /\ UNCHANGED envVars /\ UNCHANGED <<camera, wrote, panicked>>

\* the frame is over: the next one starts with no system run
FrameEnds ==
    /\ ~panicked
    /\ ran = Systems
    /\ ran' = {}
    /\ culled' = NoneYet /\ wrote' = NoneYet
    /\ log' = ""
    /\ last' = "other"
    /\ UNCHANGED worldVars /\ UNCHANGED envVars /\ UNCHANGED <<camera, panicked>>

EndFrame ==
    FrameEnds /\ UNCHANGED histVars /\ UNCHANGED preVars /\ UNCHANGED pickVars

\* the same step of an App whose frames begin with PreUpdate: every event
\* reader of the frame has read the events sent before it
EndFrameResize ==
    /\ FrameEnds
    /\ resized' = FALSE /\ pre' = {} /\ marked' = {}
    /\ UNCHANGED histVars
    /\ UNCHANGED pickVars

\* the same step with the history kept: what this frame's frustum pass
\* wrote and the primary and target GlobalTransforms it read
EndFrameRemember ==
    /\ FrameEnds
    /\ prev' = [near |-> wrote, prim |-> primGxf, target |-> target]
    /\ UNCHANGED trip /\ UNCHANGED preVars
    /\ UNCHANGED pickVars

(* ------------------------------ picking ------------------------------- *)

\* Events<T>::default(): both buffers empty
NoEvents == [a |-> <<>>, b |-> <<>>]
\* no portal_picking has run yet
NoPick ==
    [sent |-> <<>>, age |-> 0, dragged |-> {}]
\* the pointers before the first frame: nothing hovered, nothing dragged
NoPicking ==
    /\ hover_map = {}
    /\ pointer_state = {}
    /\ dragged_last_frame = {}
    /\ pointer_inputs = NoEvents
    /\ portal_events = NoEvents
    /\ stage = 0
    /\ picked = NoPick

\* the (pointer, entity) pairs a HoverMap or a PointerState can hold
Pairs == HostPointers \X PortalEnts
\* the most pairs hovered, and the most pairs dragged, at one time
MaxHovered == 2
MaxDragged == 1

\* Events<T>::send: the event goes to the newer buffer, unread by the reader
send(ev, x) == [ev EXCEPT !.b = Append(@, x)]
\* Events<T>::update, run by the host in First: the newer buffer becomes the
\* older one, the events of the older one are dropped; a reader that had not
\* read them has missed them
update(ev) == [a |-> ev.b, b |-> <<>>]
\* EventReader<T>::read: the events sent since the reader last read
unread(ev) == ev.a \o ev.b
\* the reader after the iterator read() returned was run to its end: its
\* cursor is past every event of both buffers
drained(ev) == NoEvents

\* where a pointer can be on the primary camera's viewport, and the actions
\* of the host's PointerInput events
Positions == {"centre", "sky"}
Actions == {"Move", "Press"}
\* the PointerInput events the input backend may send in one frame: a press
\* or a move over the scene, or a move to the part of the viewport whose rays
\* meet no portal plane
InputKinds == {k \in Positions \X Actions : k[1] = "sky" => k[2] = "Move"}
HostInputs ==
    { <<>> } \cup
    { <<[pointer_id |-> q, target |-> "window", position |-> k[1], action |-> k[2]]>> :
        q \in HostPointers, k \in InputKinds }

\* picking.rs:154-172: viewport_to_world gives a ray for every position on the
\* viewport; intersect_plane and world_to_viewport give a position on the
\* secondary camera's viewport when the ray meets the plane of the portal
\* in front of the camera, which the ray through "sky" does not
RayHits(x, e) == x = "centre"
Through(x, e) == <<"through", e, x>>

\* portal_query.contains(entity): Portal, Transform, PointerId, PointerLocation
Contains(e) == e \in DOMAIN portal /\ e \in DOMAIN pointer
\* picking.rs:122-141: the three lookups before the events are read
PickResolves(e) ==
    /\ Contains(e)
    /\ portal[e].linked_camera \in DOMAIN camera
    /\ PrimaryResolves(portal[e].primary_camera)
    /\ PrimaryHasTransform(portal[e].primary_camera)

\* the pairs being hovered, and the pairs being dragged, whose entity
\* portal_query holds
Hovered == {pr \in hover_map : Contains(pr[2])}
Dragged == {pr \in pointer_state : Contains(pr[2])}

\* a Local that is never drained: the pairs of every earlier run stay in it
carried_over_undrained == dragged_last_frame \cup Dragged

\* picking.rs:98, 116: dragged_last_frame once the run is over: drain() has
\* emptied it, and the pairs being dragged were inserted
carried_over == Dragged

\* picking.rs:98-119: the pairs of this run
Portals ==
    dragged_last_frame
        \cup Hovered
        \cup Dragged

\* picking.rs:176-183: the PortalInput sent for one input of the pair pr
PortalInput(pr, input) ==
    [pointer_id |-> pointer[pr[2]].id, target |-> pointer[pr[2]].target,
     position |-> Through(input.position, pr[2]), action |-> input.action]

\* picking.rs:146-184: the PortalInputs sent for the pair pr, which reads inputs
Forwarded(pr, inputs) ==
    LET mine == SelectSeq(inputs,
                    LAMBDA i : i.pointer_id = pr[1] /\ RayHits(i.position, pr[2]))
    IN [k \in 1..Len(mine) |-> PortalInput(pr, mine[k])]

\* the sets of the picking schedule in the order the host chains them:
\* PickSet::Input, ..., PickSet::Hover, ..., PickSet::Last
PickSetsReversed == <<"Last", "Hover", "Input">>
PickSets == <<"Input", "Hover", "Last">>
AtPickSet(x) == ~panicked /\ stage \in 1..Len(PickSets) /\ PickSets[stage] = x
\* user code and the windowing host act between two frames
BetweenFrames == stage = 0

\* First: the host updates the events and its input backend sends the
\* PointerInputs of the frame
BeginFrame(inputs) ==
    /\ Idle /\ stage = 0
    /\ pointer_inputs' =
          IF inputs = <<>> THEN update(pointer_inputs)
          ELSE send(update(pointer_inputs), inputs[1])
    /\ portal_events' = update(portal_events)
    /\ picked' = [picked EXCEPT !.age = IF @ < 2 THEN @ + 1 ELSE 2]
    /\ stage' = 1
    /\ log' = ""
    /\ last' = "other"
    /\ UNCHANGED <<hover_map, pointer_state, dragged_last_frame>>
    /\ UNCHANGED histVars /\ UNCHANGED preVars
    /\ UNCHANGED worldVars /\ UNCHANGED envVars /\ UNCHANGED frameVars
    /\ UNCHANGED <<camera, panicked>>

\* picking.rs portal_inputs, in PickSet::Input
RunPortalInputs ==
    /\ AtPickSet("Input")
    /\ LET evs == unread(portal_events)
           Sent[k \in 0..Len(evs)] ==
               IF k = 0 THEN pointer_inputs ELSE send(Sent[k - 1], evs[k])
       IN pointer_inputs' = Sent[Len(evs)]
    /\ portal_events' = drained(portal_events)
    /\ stage' = stage + 1
    /\ log' = ""
    /\ last' = "other"
    /\ picked' = [picked EXCEPT !.sent = <<>>]
    /\ UNCHANGED <<hover_map, pointer_state, dragged_last_frame>>
    /\ UNCHANGED histVars /\ UNCHANGED preVars
    /\ UNCHANGED worldVars /\ UNCHANGED envVars /\ UNCHANGED frameVars
    /\ UNCHANGED <<camera, panicked>>

\* the host, in PickSet::Hover: the backends' hits give the HoverMap of the
\* frame, and pointer_state follows the drags; a drag begins on a hovered
\* entity and goes on for as long as the button is held
RunHover(h, d) ==
    /\ AtPickSet("Hover")
    /\ Cardinality(h) <= MaxHovered /\ Cardinality(d) <= MaxDragged
    /\ d \subseteq pointer_state \cup h
    /\ hover_map' = h
    /\ pointer_state' = d
    /\ stage' = stage + 1
    /\ log' = ""
    /\ last' = "other"
    /\ UNCHANGED <<dragged_last_frame, pointer_inputs, portal_events, picked>>
    /\ UNCHANGED histVars /\ UNCHANGED preVars
    /\ UNCHANGED worldVars /\ UNCHANGED envVars /\ UNCHANGED frameVars
    /\ UNCHANGED <<camera, panicked>>

\* picking.rs portal_picking, in PickSet::Last. The pairs are visited in the
\* order the HashSet iterates them; the first pair that gets to
\* pointer_inputs.read() runs the reader to its end, whatever the filter
\* keeps, so that read() yields nothing for the pairs after it
RunPortalPicking ==
    /\ AtPickSet("Last")
    /\ dragged_last_frame' = carried_over
    /\ LET reading == {pr \in Portals : PickResolves(pr[2])}
           inputs == unread(pointer_inputs)
       IN IF reading = {}
             THEN /\ UNCHANGED <<pointer_inputs, portal_events>>
                  /\ picked' = [NoPick EXCEPT !.dragged = Dragged]
             ELSE \E first \in reading :
                  LET out == Forwarded(first, inputs)
                      Out[k \in 0..Len(out)] ==
                          IF k = 0 THEN portal_events ELSE send(Out[k - 1], out[k])
                  IN /\ pointer_inputs' = drained(pointer_inputs)
                     /\ portal_events' = Out[Len(out)]
                     /\ picked' = [NoPick EXCEPT !.sent = out,
                                                 !.dragged = Dragged]
    /\ stage' = stage + 1
    /\ log' = ""
    /\ last' = "other"
    /\ UNCHANGED <<hover_map, pointer_state>>
    /\ UNCHANGED histVars /\ UNCHANGED preVars
    /\ UNCHANGED worldVars /\ UNCHANGED envVars /\ UNCHANGED frameVars
    /\ UNCHANGED <<camera, panicked>>

\* PreUpdate is over; the rest of the frame does not touch the pointers
EndPickFrame ==
    /\ ~panicked /\ stage = Len(PickSets) + 1
    /\ stage' = 0
    /\ log' = ""
    /\ last' = "other"
    /\ UNCHANGED <<hover_map, pointer_state, dragged_last_frame, pointer_inputs,
                   portal_events, picked>>
    /\ UNCHANGED histVars /\ UNCHANGED preVars
    /\ UNCHANGED worldVars /\ UNCHANGED envVars /\ UNCHANGED frameVars
    /\ UNCHANGED <<camera, panicked>>

(* ---------------------------- specification --------------------------- *)

Init ==
    /\ plugin \in Plugins
    /\ alive = PortalEnts
    /\ portal = NoneYet
    /\ pxf = [e \in PortalEnts |-> PortalPose(e)]
    /\ portalImage = NoneYet
    /\ material = NoneYet
    /\ camera = NoneYet
    /\ nextCam = 1
    /\ images = NoneYet
    /\ primCam = <<PrimaryCamera("none")>>
    /\ primXf = Xf(<<0, 0, 0>>, RotI, 1)
    /\ primGxf = Xf(<<0, 0, 0>>, RotI, 1)
    /\ window = "size"
    /\ target = [t \in Targets |-> TargetPose(t)]
    /\ ran = {}
    /\ culled = NoneYet
    /\ wrote = NoneYet
    /\ log = ""
    /\ last = "other"
    /\ panicked = FALSE
    /\ resized = FALSE
    /\ pre = {}
    /\ marked = {}
    /\ prev = NoFrame
    /\ trip = NoTrip
    /\ pointer = NoneYet
    /\ NoPicking

Next ==
    \/ \E e \in PortalEnts : \E a \in PortalArgs(e) : Attach(e, a)
    \/ \E e \in PortalEnts : \E a \in PortalArgs(e) : InsertOver(e, a)
    \/ \E e \in PortalEnts : Detach(e)
    \/ \E e \in PortalEnts : Despawn(e)
    \/ \E v \in Sizes \cup {"none"} : InsertPrimaryCamera(v)
    \/ RemovePrimaryCamera
    \/ \E s \in Sizes \cup {"none"} : SetWindow(s)
    \/ \E t \in Despawnable : ToggleTarget(t)
    \/ RunPropagate
    \/ RunUpdateTransform
    \/ RunHostUpdateFrusta
    \/ RunUpdateFrusta
    \/ RunCheckVisibility
    \/ EndFrame

Spec == Init /\ [][Next]_vars

\* the same App while code outside the plugin also despawns secondary
\* cameras behind the plugin's back
NextFrame ==
    \/ Next
    \/ \E c \in CamIds : DespawnCamera(c)

SpecFrame == Init /\ [][NextFrame]_vars

\* a scene whose portal surfaces, targets and primary camera stand at poses
\* drawn from the sets above, before any Portal is attached
InitMath ==
    /\ plugin \in Plugins
    /\ alive = PortalEnts
    /\ portal = NoneYet
    /\ pxf \in { [e \in PortalEnts |-> x] : x \in MathPortalPoses }
    /\ portalImage = NoneYet
    /\ material = NoneYet
    /\ camera = NoneYet
    /\ nextCam = 1
    /\ images = NoneYet
    /\ primCam = <<PrimaryCamera("none")>>
    /\ primXf \in PrimPoses
    /\ primGxf = primXf
    /\ window = "size"
    /\ target \in { [t \in Targets |-> x] : x \in MathTargetPoses }
    /\ ran = {}
    /\ culled = NoneYet
    /\ wrote = NoneYet
    /\ log = ""
    /\ last = "other"
    /\ panicked = FALSE
    /\ resized = FALSE
    /\ pre = {}
    /\ marked = {}
    /\ prev = NoFrame
    /\ trip = NoTrip
    /\ pointer = NoneYet
    /\ NoPicking

\* portals are attached, the primary camera moves, frames run
NextMath ==
    \/ \E e \in PortalEnts : \E a \in PortalArgs(e) : Attach(e, a)
    \/ \E x \in PrimPoses : MovePrimary(x)
    \/ RunPropagate
    \/ RunUpdateTransform
    \/ RunHostUpdateFrusta
    \/ RunUpdateFrusta
    \/ RunCheckVisibility
    \/ EndFrame

SpecMath == InitMath /\ [][NextMath]_vars

\* the same scenes with the targets left where they stand, and the history
\* of each frame's frustum pass kept for the next frame
NextFlip ==
    \/ \E e \in PortalEnts : \E a \in PortalArgs(e) : Attach(e, a)
    \/ \E x \in PrimPoses : MovePrimary(x)
    \/ RunPropagate
    \/ RunUpdateTransform
    \/ RunHostUpdateFrusta
    \/ RunUpdateFrusta
    \/ RunCheckVisibility
    \/ EndFrameRemember

SpecFlip == InitMath /\ [][NextFlip]_vars

\* the same scenes with the primary left where it stands, while a target
\* is moved, turned and rescaled between frames
NextTarget ==
    \/ \E e \in PortalEnts : \E a \in PortalArgs(e) : Attach(e, a)
    \/ \E t \in Despawnable : \E x \in MathTargetPoses : MoveTarget(t, x)
    \/ RunPropagate
    \/ RunUpdateTransform
    \/ RunHostUpdateFrusta
    \/ RunUpdateFrusta
    \/ RunCheckVisibility
    \/ EndFrame

SpecTarget == InitMath /\ [][NextTarget]_vars

\* the scene of Init, with a primary camera that renders to the whole
\* window or to a viewport of its own
InitResize ==
    /\ plugin \in Plugins
    /\ alive = PortalEnts
    /\ portal = NoneYet
    /\ pxf = [e \in PortalEnts |-> PortalPose(e)]
    /\ portalImage = NoneYet
    /\ material = NoneYet
    /\ camera = NoneYet
    /\ nextCam = 1
    /\ images = NoneYet
    /\ primCam \in { <<PrimaryCamera(v)>> : v \in Sizes \cup {"none"} }
    /\ primXf = Xf(<<0, 0, 0>>, RotI, 1)
    /\ primGxf = Xf(<<0, 0, 0>>, RotI, 1)
    /\ window = "size"
    /\ target = [t \in Targets |-> TargetPose(t)]
    /\ ran = {}
    /\ culled = NoneYet
    /\ wrote = NoneYet
    /\ log = ""
    /\ last = "other"
    /\ panicked = FALSE
    /\ resized = FALSE
    /\ pre = {}
    /\ marked = {}
    /\ prev = NoFrame
    /\ trip = NoTrip
    /\ pointer = NoneYet
    /\ NoPicking

\* the App with its PreUpdate schedule, while the windowing host resizes the
\* primary window between frames; the systems of PostUpdate run once
\* PreUpdate is over
NextResize ==
    \/ \E e \in PortalEnts : \E a \in PortalArgs(e) : OutsidePreUpdate /\ Attach(e, a)
    \/ \E e \in PortalEnts : OutsidePreUpdate /\ Detach(e)
    \/ \E s \in WindowSizes : ResizeWindow(s)
    \/ RunResizeImages
    \/ RunUpdateMaterials
    \/ PreUpdateDone /\ RunPropagate
    \/ PreUpdateDone /\ RunUpdateTransform
    \/ PreUpdateDone /\ RunHostUpdateFrusta
    \/ PreUpdateDone /\ RunUpdateFrusta
    \/ PreUpdateDone /\ RunCheckVisibility
    \/ EndFrameResize

SpecResize == InitResize /\ [][NextResize]_vars

\* the same App while user code also rewrites the cull_mode of attached
\* Portals between frames
NextCull ==
    \/ \E e \in PortalEnts : \E a \in PortalArgs(e) : OutsidePreUpdate /\ Attach(e, a)
    \/ \E e \in PortalEnts : \E c \in CullModes : OutsidePreUpdate /\ SetCullMode(e, c)
    \/ \E s \in WindowSizes : ResizeWindow(s)
    \/ RunResizeImages
    \/ RunUpdateMaterials
    \/ PreUpdateDone /\ RunPropagate
    \/ PreUpdateDone /\ RunUpdateTransform
    \/ PreUpdateDone /\ RunHostUpdateFrusta
    \/ PreUpdateDone /\ RunUpdateFrusta
    \/ PreUpdateDone /\ RunCheckVisibility
    \/ EndFrameResize

SpecCull == InitResize /\ [][NextCull]_vars

\* the App of Init between its frames, with the host's asset tracking
NextAbort ==
    \/ \E e \in PortalEnts : \E a \in PortalArgs(e) : Attach(e, a)
    \/ \E e \in PortalEnts : Detach(e)
    \/ \E e \in PortalEnts : Despawn(e)
    \/ \E v \in Sizes \cup {"none"} : InsertPrimaryCamera(v)
    \/ RemovePrimaryCamera
    \/ \E s \in Sizes \cup {"none"} : SetWindow(s)
    \/ \E t \in Despawnable : ToggleTarget(t)
    \/ RunTrackAssets

SpecAbort == Init /\ [][NextAbort]_vars

\* the same App while user code takes images out of the pool and the
\* windowing host closes the window it has just resized
NextSkip ==
    \/ \E e \in PortalEnts : \E a \in PortalArgs(e) : OutsidePreUpdate /\ Attach(e, a)
    \/ \E h \in 1..MaxImages : OutsidePreUpdate /\ RemoveImage(h)
    \/ \E s \in WindowSizes : ResizeWindow(s)
    \/ CloseWindow
    \/ RunResizeImages
    \/ RunUpdateMaterials
    \/ PreUpdateDone /\ RunPropagate
    \/ PreUpdateDone /\ RunUpdateTransform
    \/ PreUpdateDone /\ RunHostUpdateFrusta
    \/ PreUpdateDone /\ RunUpdateFrusta
    \/ PreUpdateDone /\ RunCheckVisibility
    \/ EndFrameResize

SpecSkip == InitResize /\ [][NextSkip]_vars

\* an App with PortalCameraPlugin and PortalPickingPlugin, in the scene of Init
InitPicking ==
    /\ Init
    /\ plugin = "PortalCameraPlugin"

\* portals are attached between frames, and the frames run the picking
\* schedule
NextPicking ==
    \/ \E e \in PortalEnts : \E a \in PortalArgs(e) : BetweenFrames /\ Attach(e, a)
    \/ \E i \in HostInputs : BeginFrame(i)
    \/ RunPortalInputs
    \/ \E h \in SUBSET Pairs : \E d \in SUBSET Pairs : RunHover(h, d)
    \/ RunPortalPicking
    \/ EndPickFrame

SpecPicking == InitPicking /\ [][NextPicking]_vars

\* the same App with the mouse as its only pointer, while portals are also
\* detached, and attached again, between frames
NextRepick ==
    \/ \E e \in PortalEnts : \E a \in PortalArgs(e) : BetweenFrames /\ Attach(e, a)
    \/ \E e \in PortalEnts : BetweenFrames /\ Detach(e)
    \/ \E i \in {x \in HostInputs : x = <<>> \/ x[1].pointer_id = "mouse"} : BeginFrame(i)
    \/ RunPortalInputs
    \/ \E h \in SUBSET ({"mouse"} \X PortalEnts) :
          \E d \in SUBSET ({"mouse"} \X PortalEnts) : RunHover(h, d)
    \/ RunPortalPicking
    \/ EndPickFrame

SpecRepick == InitPicking /\ [][NextRepick]_vars

(* ----------------------------- properties ----------------------------- *)

\* the step attaches a Portal to e, which carried none
Attached(e) == e \notin DOMAIN portal /\ e \in DOMAIN portal'
\* the step removes the Portal of e, by detaching it or despawning e
Removed(e) == e \in DOMAIN portal /\ e \notin DOMAIN portal'
\* the Portal of e has a linked camera
Active(e) == e \in DOMAIN portal /\ portal[e].linked_camera # 0
\* one of the three things setup needs is missing for the Portal p
SetupCannotResolve(p) ==
    \/ p.primary_camera # "prim"
    \/ primCam = <<>>
    \/ (primCam[1].viewport = "none" /\ window = "none")
    \/ p.target \notin DOMAIN target

\* C1: under PortalCameraPlugin, in every state reached by attaching,
\* detaching, inserting over and despawning, the live secondary cameras are
\* exactly the linked_camera values of the live Portals, each linked camera
\* is alive and its PortalCamera names that portal, and no two portals share
\* a camera.
C1_CamerasAreTheLinkedOnes ==
    plugin = "PortalCameraPlugin" =>
        /\ DOMAIN camera = { portal[e].linked_camera : e \in DOMAIN portal } \ {0}
        /\ \A e \in DOMAIN portal : Active(e) =>
              /\ portal[e].linked_camera \in DOMAIN camera
              /\ camera[portal[e].linked_camera].owner = e
        /\ \A e1, e2 \in DOMAIN portal :
              Active(e1) /\ portal[e1].linked_camera = portal[e2].linked_camera
                  => e1 = e2

\* C2 as stated: under PortalCameraPlugin, every step that removes a Portal
\* despawns exactly one secondary camera, the one that portal owned.
C2_RemoveDespawnsExactlyOne ==
    [][\A e \in PortalEnts :
          plugin = "PortalCameraPlugin" /\ Removed(e) =>
              /\ Cardinality(DOMAIN camera \ DOMAIN camera') = 1
              /\ \A c \in DOMAIN camera \ DOMAIN camera' :
                    camera[c].owner = e /\ portal[e].linked_camera = c]_vars

\* C2 amended: under PortalCameraPlugin, a step that removes a Portal whose
\* linked_camera is Some(c) despawns c, which is alive and names that portal,
\* and no other camera; a step that removes a Portal whose linked_camera is
\* None despawns no camera.
C2_RemoveDespawnsTheLinked ==
    [][\A e \in PortalEnts :
          plugin = "PortalCameraPlugin" /\ Removed(e) =>
              IF portal[e].linked_camera # 0
                  THEN /\ portal[e].linked_camera \in DOMAIN camera
                       /\ camera[portal[e].linked_camera].owner = e
                       /\ DOMAIN camera' = DOMAIN camera \ {portal[e].linked_camera}
                  ELSE DOMAIN camera' = DOMAIN camera]_vars

\* the one camera ever spawned is gone, with the Portal that owned it
C2_Witness ==
    /\ plugin = "PortalCameraPlugin"
    /\ nextCam = 2
    /\ DOMAIN camera = {}

\* C3: when a Portal is attached while its primary camera does not resolve,
\* or no viewport size can be determined, or its target has no world
\* transform, setup logs an error and does not panic; the portal's
\* linked_camera is None, no camera is spawned and the PortalImage
\* components are as they were.
C3_FailedSetupLeavesNoCamera ==
    [][\A e \in PortalEnts :
          Attached(e) /\ SetupCannotResolve(portal'[e]) =>
              /\ log' # ""
              /\ ~panicked'
              /\ portal'[e].linked_camera = 0
              /\ camera' = camera /\ nextCam' = nextCam
              /\ portalImage' = portalImage]_vars

\* an attach just failed because the target has no world transform
C3_Witness ==
    /\ log = "no_target"
    /\ \E e \in DOMAIN portal : portal[e].linked_camera = 0

\* C4: a Portal whose linked_camera is None keeps it None in every step that
\* leaves the Portal on its entity, whatever becomes resolvable meanwhile;
\* attaching a Portal while primary camera, viewport size and target
\* transform are resolvable gives it a linked camera.
C4_NoRetryUntilFreshAdd ==
    [][\A e \in PortalEnts :
          /\ (e \in DOMAIN portal /\ e \in DOMAIN portal'
                  /\ portal[e].linked_camera = 0)
                => portal'[e].linked_camera = 0
          /\ (Attached(e) /\ ~SetupCannotResolve(portal'[e]))
                => portal'[e].linked_camera # 0]_vars

\* no setup ever succeeded, a Portal sits without linked camera although all
\* it needs is resolvable now, and a whole frame has run over it
C4_Witness ==
    /\ nextCam = 1
    /\ ran = Systems
    /\ \E e \in DOMAIN portal :
          portal[e].linked_camera = 0 /\ ~SetupCannotResolve(portal[e])

\* C5: attaching a Portal while primary camera, viewport size and target
\* transform are resolvable sets linked_camera, in that same step and so
\* before any transform update, to a camera entity that did not exist before
\* and names the portal; a set linked_camera keeps its value in every step
\* that neither removes the Portal nor inserts a new Portal over it.
C5_LinkedAtAttachAndKept ==
    [][\A e \in PortalEnts :
          /\ (Attached(e) /\ ~SetupCannotResolve(portal'[e])) =>
                /\ portal'[e].linked_camera = nextCam
                /\ nextCam \notin DOMAIN camera
                /\ nextCam \in DOMAIN camera'
                /\ camera'[nextCam].owner = e
                /\ nextCam' > nextCam
                /\ "UpdateTransform" \notin ran'
          /\ (Active(e) /\ e \in DOMAIN portal' /\ last' # "insert") =>
                portal'[e].linked_camera = portal[e].linked_camera]_vars

\* both portals are Active with cameras of their own after a whole frame
C5_Witness ==
    /\ ran = Systems
    /\ \A e \in PortalEnts :
          /\ Active(e)
          /\ portal[e].linked_camera \in DOMAIN camera
          /\ camera[portal[e].linked_camera].owner = e

\* the step is a run of the system s
Runs(s) == s \notin ran /\ s \in ran'
\* one of the references the per-frame passes follow from the Portal of e
\* leads nowhere
Unresolvable(e) ==
    \/ portal[e].linked_camera \notin DOMAIN camera
    \/ portal[e].target \notin DOMAIN target
    \/ portal[e].primary_camera # "prim"
\* all of them lead somewhere, and the primary entity is a camera
Resolvable(e) == ~Unresolvable(e) /\ primCam # <<>>

\* C6: a run of the portal transform update or of the portal frustum update
\* does not fail; it leaves the secondary camera of every portal it cannot
\* resolve as it was, and writes the camera of every resolvable portal.
C6_UnresolvableAreSkipped ==
    [][\A s \in {"UpdateTransform", "UpdateFrusta"} : Runs(s) =>
          /\ ~panicked'
          /\ \A e \in DOMAIN portal :
                (Unresolvable(e) /\ portal[e].linked_camera \in DOMAIN camera)
                    => camera'[portal[e].linked_camera] = camera[portal[e].linked_camera]
          /\ \A e \in DOMAIN portal : Resolvable(e) =>
                IF s = "UpdateTransform"
                    THEN /\ camera'[portal[e].linked_camera].tchanged
                         /\ camera'[portal[e].linked_camera].gchanged
                    ELSE camera'[portal[e].linked_camera].frustum.near.by = "portal"]_vars

\* C7 as stated: the transform update runs after transform propagation, the
\* frustum update after the transform update, and the host's frustum
\* recompute only after both.
C7_BothBeforeHostRecompute ==
    /\ "UpdateTransform" \in ran => "Propagate" \in ran
    /\ "UpdateFrusta" \in ran => "UpdateTransform" \in ran
    /\ "HostUpdateFrusta" \in ran => {"UpdateTransform", "UpdateFrusta"} \subseteq ran

\* C7 amended: the transform update runs after transform propagation and
\* the frustum update after the transform update; under PortalPlugin both
\* run before the host's frustum recompute, under PortalCameraPlugin the
\* frustum update runs after the host's frustum recompute.
C7_PassOrderPerRevision ==
    /\ "UpdateTransform" \in ran => "Propagate" \in ran
    /\ "UpdateFrusta" \in ran => "UpdateTransform" \in ran
    /\ plugin = "PortalPlugin" =>
          ("HostUpdateFrusta" \in ran => {"UpdateTransform", "UpdateFrusta"} \subseteq ran)
    /\ plugin = "PortalCameraPlugin" =>
          ("UpdateFrusta" \in ran => "HostUpdateFrusta" \in ran)

\* under PortalCameraPlugin the frustum update has just written the near
\* half-space of an Active portal, after the host's frustum recompute
C7_Witness ==
    /\ plugin = "PortalCameraPlugin"
    /\ ran = {"Propagate", "UpdateTransform", "HostUpdateFrusta", "UpdateFrusta"}
    /\ \E e \in DOMAIN portal :
          /\ Active(e)
          /\ portal[e].linked_camera \in DOMAIN wrote
          /\ camera[portal[e].linked_camera].frustum.near.by = "portal"

\* C8: once all systems of a frame have run, the near half-space the portal
\* frustum update wrote for a camera in that frame is the one the host's
\* visibility check culled with for that camera.
C8_CulledWithPortalNearPlane ==
    ran = Systems =>
        \A c \in DOMAIN wrote : c \in DOMAIN culled /\ culled[c] = wrote[c]

\* the translation and rotation the claim gives the secondary camera of e
ClaimedTranslation(e) ==
    LET p == pxf[e]
        t == target[portal[e].target]
        relative == VDiv(MatVec(RotInverse(p.r), VSub(primGxf.t, p.t)), p.s)
    IN VAdd(MatVec(t.r, VScale(t.s, relative)), t.t)
ClaimedRotation(e) ==
    MatMul(target[portal[e].target].r, MatMul(RotInverse(pxf[e].r), primGxf.r))
\* portal and target of e are unrotated and of unit scale
Flat(e) ==
    /\ pxf[e].r = RotI /\ pxf[e].s = 1
    /\ target[portal[e].target].r = RotI /\ target[portal[e].target].s = 1

\* C9: once the transform update has run in a frame, the secondary camera of
\* every resolvable Active portal has the claimed translation and rotation,
\* in its Transform and in its GlobalTransform; in the flat case that is
\* primary - portal + target with the primary's rotation.
C9_CameraPoseIsPrimaryThroughPortal ==
    "UpdateTransform" \in ran =>
        \A e \in DOMAIN portal : Resolvable(e) =>
            LET c == camera[portal[e].linked_camera] IN
            /\ c.transform.t = ClaimedTranslation(e)
            /\ c.transform.r = ClaimedRotation(e)
            /\ c.global.t = c.transform.t
            /\ c.global.r = c.transform.r
            /\ Flat(e) =>
                  /\ c.transform.t = VAdd(VSub(primGxf.t, pxf[e].t),
                                          target[portal[e].target].t)
                  /\ c.transform.r = primGxf.r

\* C10: the near half-space the frustum update wrote for the camera of a
\* portal passes through the position of that portal's target.
C10_NearPlaneThroughTarget ==
    \A e \in DOMAIN portal :
        (Resolvable(e) /\ portal[e].linked_camera \in DOMAIN wrote) =>
            LET h == wrote[portal[e].linked_camera] IN
            Dot(target[portal[e].target].t, h.n) + h.d = 0

\* the side of the portal surface's plane the primary at g is on, as the
\* frustum pass measures it: (portal_position - primary_position) . portal_forward
PlaneSide(e, g) == Dot(VSub(pxf[e].t, g.t), forward(pxf[e]))

\* the near normal the frustum pass wrote this frame for portal e is the
\* target's forward axis, negated iff the flag is set and Behind(e, g) holds
\* of the primary; and with the flag set, it is negated in exactly one of
\* this frame and the previous one iff Behind changed between the two
NormalFollowsSide(e, Behind(_, _)) ==
    LET c == portal[e].linked_camera
        f == forward(target[portal[e].target])
        flag == portal[e].flip_near_plane_normal
    IN c \in DOMAIN wrote =>
        /\ wrote[c].n = IF flag /\ Behind(e, primGxf) THEN VNeg(f) ELSE f
        /\ ~flag => wrote[c].n # VNeg(f)
        /\ (flag /\ c \in DOMAIN prev.near) =>
              LET g == forward(prev.target[portal[e].target]) IN
              ((wrote[c].n = VNeg(f)) # (prev.near[c].n = VNeg(g)))
                  <=> (Behind(e, prev.prim) # Behind(e, primGxf))

StrictlyBehind(e, g) == PlaneSide(e, g) < 0
BehindOrOnPlane(e, g) == PlaneSide(e, g) <= 0

\* C11 as stated: the near normal written by the frustum update is the
\* target's forward axis, negated iff flip_near_plane_normal is enabled and
\* (portal_position - primary_position) . portal_forward is negative; never
\* negated with the flag disabled; with the flag enabled its sign changes
\* between two consecutive frames exactly when the primary crossed the plane
C11_NormalFlipsBehindPlane ==
    plugin = "PortalCameraPlugin" =>
        \A e \in DOMAIN portal : NormalFollowsSide(e, StrictlyBehind)

\* C11 amended: the same with "negative" replaced by "negative or zero": a
\* primary exactly on the portal surface's plane counts as behind it
C11_NormalFlipsBehindOrOnPlane ==
    plugin = "PortalCameraPlugin" =>
        \A e \in DOMAIN portal : NormalFollowsSide(e, BehindOrOnPlane)

\* a flagged portal whose near normal was written in two consecutive frames
\* with different signs, the primary having gone behind the surface, next to
\* an unflagged portal whose primary is behind its surface too
C11_Witness ==
    /\ plugin = "PortalCameraPlugin"
    /\ \E e \in DOMAIN portal :
          LET c == portal[e].linked_camera IN
          /\ portal[e].flip_near_plane_normal
          /\ c \in DOMAIN wrote /\ c \in DOMAIN prev.near
          /\ wrote[c].n = VNeg(forward(target[portal[e].target]))
          /\ prev.near[c].n = forward(prev.target[portal[e].target])
          /\ PlaneSide(e, prev.prim) > 0 /\ PlaneSide(e, primGxf) < 0
    /\ \E e \in DOMAIN portal :
          /\ ~portal[e].flip_near_plane_normal
          /\ portal[e].linked_camera \in DOMAIN wrote
          /\ PlaneSide(e, primGxf) < 0

\* C12: a run of the portal frustum update overwrites, in the frustum of the
\* secondary camera of each portal it resolves, the near half-space and no
\* other; the other half-spaces of that frustum and every half-space of
\* every other camera's frustum are as before, and no camera comes or goes.
C12_OnlyNearOverwritten ==
    [][Runs("UpdateFrusta") =>
        /\ DOMAIN camera' = DOMAIN camera
        /\ \A c \in DOMAIN camera :
              IF c \in DOMAIN wrote'
                  THEN /\ camera'[c] = [camera[c] EXCEPT !.frustum.near = wrote'[c]]
                       /\ camera'[c].frustum.rest = camera[c].frustum.rest
                       /\ wrote'[c].by = "portal"
                  ELSE camera'[c].frustum = camera[c].frustum
        /\ plugin = "PortalCameraPlugin" =>
              \A e \in DOMAIN portal :
                  FrustaResolves(e) => portal[e].linked_camera \in DOMAIN wrote']_vars

\* the frustum update has just run after the host's recompute: one camera
\* has the portal's near half-space next to the host's other half-spaces,
\* another camera, which no resolvable portal links, has the host's frustum
C12_Witness ==
    /\ plugin = "PortalCameraPlugin"
    /\ "UpdateFrusta" \in ran
    /\ \E c \in DOMAIN wrote : \E d \in DOMAIN camera \ DOMAIN wrote :
          /\ camera[c].frustum.near.by = "portal"
          /\ camera[c].frustum.rest = <<camera[c].global>>
          /\ camera[d].frustum = HostFrustum(camera[d].global)

\* the image the secondary camera of the Active portal e renders to
ImageOf(e) == camera[portal[e].linked_camera].image

\* C13: once the resize pass of a frame has run, the image of every Active
\* portal has the current viewport size of the portal's primary camera: the
\* camera's own viewport size if it has one, else the size of its window.
C13_ImageHasViewportSize ==
    (plugin = "PortalCameraPlugin" /\ "ResizeImage" \in pre) =>
        \A e \in DOMAIN portal :
            (Active(e) /\ portal[e].linked_camera \in DOMAIN camera /\ primCam # <<>>) =>
                images[ImageOf(e)] = get_viewport_size(primCam[1])

\* the window was resized from a size A, with no earlier event waiting, and
\* then back to A, no Portal was attached or removed since the first resize
\* and the resize pass has read the events
RoundTripDone ==
    /\ trip.stage = 2
    /\ window = trip.window
    /\ portal = trip.portal /\ nextCam = trip.nextCam
    /\ (~resized \/ "ResizeImage" \in pre)

\* C14: with a fixed set of portals, after a resize from size A to size B and
\* back to A every image has the dimensions it had before the first resize,
\* and the pool holds as many images as before.
C14_RoundTripRestoresImages ==
    (plugin = "PortalCameraPlugin" /\ RoundTripDone) =>
        /\ Cardinality(DOMAIN images) = Cardinality(DOMAIN trip.images)
        /\ \A h \in DOMAIN trip.images : h \in DOMAIN images /\ images[h] = trip.images[h]

\* the step is a run of the resize pass
RunsPre(s) == s \notin pre /\ s \in pre'
\* the images of the Active portals
ActiveImages ==
    {ImageOf(e) : e \in {x \in DOMAIN portal :
                            Active(x) /\ portal[x].linked_camera \in DOMAIN camera}}
\* the images some entity's PortalImage names
NamedImages == {portalImage[e] : e \in DOMAIN portalImage}
\* what a resize pass leaves alone: handles, cameras, materials, Portals, the pool
ResizeKeeps ==
    /\ portalImage' = portalImage
    /\ camera' = camera
    /\ material' = material
    /\ portal' = portal
    /\ DOMAIN images' = DOMAIN images
    /\ ~resized => images' = images

C16_MaterialsMarkedAfterResize ==
    [][plugin = "PortalCameraPlugin" =>
        /\ RunsPre("UpdateMaterials") =>
              /\ "ResizeImage" \in pre
              /\ ran = {}
              /\ marked' = IF resized THEN {e \in DOMAIN portal : e \in DOMAIN material}
                            ELSE {}
              /\ \A e \in marked' :
                    e \in DOMAIN portalImage => images[portalImage[e]] = window
        /\ ~RunsPre("UpdateMaterials") => marked' \subseteq marked
        /\ (Runs("UpdateTransform") \/ Runs("UpdateFrusta")) => "UpdateMaterials" \in pre
    ]_vars

\* a frame with an event: the material of an Active portal was marked after
\* its image got the window's new size, and the transform update has run since
C16_Witness ==
    /\ plugin = "PortalCameraPlugin"
    /\ resized /\ "UpdateTransform" \in ran
    /\ trip.stage = 1
    /\ \E e \in marked :
          /\ Active(e) /\ portal[e].linked_camera \in DOMAIN camera
          /\ ImageOf(e) \in DOMAIN trip.images
          /\ trip.images[ImageOf(e)] # window /\ images[ImageOf(e)] = window

\* C17 as stated: when the primary's world transform is exactly the portal
\* surface's, the transform update writes the target's transform into the
\* secondary camera: translation, rotation and scale.
C17_PrimaryOnPortalGivesTarget ==
    (plugin = "PortalCameraPlugin" /\ "UpdateTransform" \in ran) =>
        \A e \in DOMAIN portal :
            (TransformResolves(e) /\ primGxf = pxf[e]) =>
                /\ camera[portal[e].linked_camera].transform = target[portal[e].target]
                /\ camera[portal[e].linked_camera].global = target[portal[e].target]

\* C17 amended: it writes the target's translation and rotation, to the
\* Transform and to the GlobalTransform; the scale is not written
C17_PrimaryOnPortalGivesTargetPose ==
    (plugin = "PortalCameraPlugin" /\ "UpdateTransform" \in ran) =>
        \A e \in DOMAIN portal :
            (TransformResolves(e) /\ primGxf = pxf[e]) =>
                LET c == portal[e].linked_camera
                    t == target[portal[e].target]
                IN /\ camera[c].transform.t = t.t /\ camera[c].transform.r = t.r
                   /\ camera[c].global = camera[c].transform

\* the transform update has run with the primary moved onto a portal
\* surface that stands elsewhere than its target
C17_Witness ==
    /\ plugin = "PortalCameraPlugin"
    /\ "UpdateTransform" \in ran
    /\ \E e \in DOMAIN portal :
          /\ TransformResolves(e)
          /\ primGxf = pxf[e]
          /\ primGxf.r # RotI
          /\ target[portal[e].target] # pxf[e]
          /\ camera[portal[e].linked_camera].transform.t = target[portal[e].target].t
          /\ camera[portal[e].linked_camera].transform.r = target[portal[e].target].r
          /\ camera[portal[e].linked_camera].transform.s # target[portal[e].target].s

\* the translation and rotation the installed revision's mapping gives for
\* a viewpoint at g, from the surface at from_transform to to_transform
MappedPose(g, from_transform, to_transform) ==
    IF plugin = "PortalCameraPlugin"
        THEN [t |-> camera_translation(g, from_transform, to_transform),
              r |-> camera_rotation(g, from_transform, to_transform)]
        ELSE [t |-> lib_camera_translation(g, from_transform, to_transform),
              r |-> lib_camera_rotation(g, from_transform, to_transform)]
\* the transform update of this frame wrote the secondary camera of e
TransformWasWritten(e) ==
    /\ "UpdateTransform" \in ran /\ ~panicked
    /\ IF plugin = "PortalCameraPlugin" THEN TransformResolves(e)
       ELSE LibTransformReached(e) /\ ~LibTransformPanics(e)

\* C18: the mapping applied to the pose the transform update wrote for a
\* portal, with portal surface and target swapped, gives back the primary's
\* translation and rotation.
C18_SwappedMappingReturnsPrimary ==
    \A e \in DOMAIN portal :
        TransformWasWritten(e) =>
            LET back == MappedPose(camera[portal[e].linked_camera].transform,
                                   target[portal[e].target], pxf[e])
            IN back.t = primGxf.t /\ back.r = primGxf.r

\* a written camera pose that differs from the primary's in translation and
\* rotation, for a portal surface of scale 2 and a target of scale 1
C18_Witness ==
    \E e \in DOMAIN portal :
        /\ TransformWasWritten(e)
        /\ pxf[e].s = 2 /\ target[portal[e].target].s = 1
        /\ camera[portal[e].linked_camera].transform.t # primGxf.t
        /\ camera[portal[e].linked_camera].transform.r # primGxf.r

\* C19: every secondary camera has a Camera::order strictly lower than the
\* order of the primary camera, so that it renders before the primary.
C19_SecondaryOrderedBeforePrimary ==
    \A c \in DOMAIN camera :
        primCam # <<>> => camera[c].order < primCam[1].order

\* C20: when the setup of a portal completes, the portal entity carries a
\* material whose texture is the image the portal's secondary camera renders
\* to and whose cull_mode is the Portal's, which is Back for a Portal built
\* by Portal::new alone.
C20_MaterialBoundAtSetup ==
    [][\A e \in PortalEnts :
        (Attached(e) /\ portal'[e].linked_camera # 0) =>
            /\ e \in DOMAIN material'
            /\ material'[e].base_color_texture = camera'[portal'[e].linked_camera].image
            /\ material'[e].cull_mode = portal'[e].cull_mode
            /\ e = "portal_a" => material'[e].cull_mode = "Back"]_vars
\* the material of e was bound in an earlier step and stays on e
Bound(e) == e \in DOMAIN material /\ e \in DOMAIN material'

\* C21: the material a setup binds gets the cull_mode the Portal has when that
\* setup completes, and no later step changes the cull_mode of a bound
\* material: not a change of the Portal's cull_mode, not a frame, not a frame
\* in which a resize is handled
C21_MaterialCullModeKept ==
    [][\A e \in PortalEnts :
          /\ (e \notin DOMAIN material /\ e \in DOMAIN material')
                => material'[e].cull_mode = portal'[e].cull_mode
          /\ (Bound(e) /\ ~Attached(e))
                => material'[e].cull_mode = material[e].cull_mode]_vars

\* a resize was handled for a portal whose cull_mode was changed after its
\* material was bound
C21_Witness ==
    \E e \in DOMAIN material :
        /\ e \in DOMAIN portal
        /\ portal[e].cull_mode # material[e].cull_mode
        /\ e \in marked
        /\ "UpdateMaterials" \in pre

\* the step is the run of the picking set x
RunsPick(x) == AtPickSet(x) /\ stage' = stage + 1
\* the reader of portal_picking holds an input of the pointer of pr whose ray
\* meets the plane of the portal of pr
HasInput(pr) ==
    \E k \in 1..Len(unread(pointer_inputs)) :
        /\ unread(pointer_inputs)[k].pointer_id = pr[1]
        /\ RayHits(unread(pointer_inputs)[k].position, pr[2])
\* the run of portal_picking sends an event for the portal of pr
SendsFor(pr) ==
    \E k \in 1..Len(picked'.sent) : picked'.sent[k].pointer_id = Custom(pr[2])

\* C22: in every run of portal_picking in which a pair is being dragged, is
\* no longer hovered, resolves, and its pointer has produced an input that
\* maps onto the portal, an event is forwarded for that portal
C22_DragKeepsForwarding ==
    [][\A pr \in Pairs :
          (/\ RunsPick("Last")
           /\ pr \in Dragged \ Hovered
           /\ PickResolves(pr[2])
           /\ HasInput(pr))
          => SendsFor(pr)]_vars

\* the run of portal_picking sends, for the portal of pr, the event that
\* forwards the input i
Forwards(pr, i) ==
    \E k \in 1..Len(picked'.sent) :
        /\ picked'.sent[k].pointer_id = Custom(pr[2])
        /\ picked'.sent[k].position = Through(i.position, pr[2])
        /\ picked'.sent[k].action = i.action

\* C23: in every run of portal_picking, for every pair of the forwarding set
\* whose portal and cameras resolve, every input of the pair's pointer the
\* reader holds whose ray meets the portal's plane is forwarded for that
\* portal, however many pairs the set holds
C23_EveryPairForwarded ==
    [][RunsPick("Last") =>
          \A pr \in Portals :
              PickResolves(pr[2]) =>
                  \A k \in 1..Len(unread(pointer_inputs)) :
                      (/\ unread(pointer_inputs)[k].pointer_id = pr[1]
                       /\ RayHits(unread(pointer_inputs)[k].position, pr[2]))
                      => Forwards(pr, unread(pointer_inputs)[k])]_vars

\* the image the secondary camera of the portal on e renders to
CameraImage(e) == camera[portal[e].linked_camera].image

\* C24: every event a run of portal_picking sends forwards one of the inputs
\* the run read, for a pair of its forwarding set: it carries the synthetic
\* pointer id of that pair's portal, the image that portal's secondary
\* camera renders to as its target, and the action of the input
C24_ForwardedEventFields ==
    [][RunsPick("Last") =>
          \A k \in 1..Len(picked'.sent) :
              \E pr \in Portals :
                  \E j \in 1..Len(unread(pointer_inputs)) :
                      /\ PickResolves(pr[2])
                      /\ unread(pointer_inputs)[j].pointer_id = pr[1]
                      /\ picked'.sent[k].pointer_id = Custom(pr[2])
                      /\ picked'.sent[k].pointer_id \notin HostPointers
                      /\ picked'.sent[k].target = CameraImage(pr[2])
                      /\ picked'.sent[k].action = unread(pointer_inputs)[j].action]_vars

\* the events of the sequence evs that portal_inputs sent
FromPortals(evs) == SelectSeq(evs, LAMBDA i : i.pointer_id \notin HostPointers)

C26_ResizePassSkips ==
    [][(plugin = "PortalCameraPlugin" /\ RunsPre("ResizeImage") /\ resized) =>
          /\ ~panicked'
          /\ window = "none" => images' = images
          /\ window # "none" =>
                \A e \in DOMAIN portalImage :
                    images'[portalImage[e]] =
                        IF images[portalImage[e]] = "removed" THEN "removed" ELSE window]_vars

\* C27: whenever a portal is Active, its PortalImage, the texture of its
\* material, the render target of its linked camera and the target of its
\* pointer location are one image, whatever attaches and detaches came before
C27_OneImagePerActivePortal ==
    \A e \in DOMAIN portal :
        (plugin = "PortalCameraPlugin" /\ Active(e)) =>
            /\ e \in DOMAIN portalImage
            /\ e \in DOMAIN material
            /\ e \in DOMAIN pointer
            /\ portal[e].linked_camera \in DOMAIN camera
            /\ CameraImage(e) = portalImage[e]
            /\ material[e].base_color_texture = portalImage[e]
            /\ pointer[e].target = portalImage[e]

\* the images in the pool
Pool == {h \in DOMAIN images : images[h] # "removed"}
\* the step attaches a Portal to e and its setup returns early
Aborted(e) == Attached(e) /\ portal'[e].linked_camera = 0

ActivePortals == {e \in DOMAIN portal : Active(e)}

\* C29: the entities that carry a PortalImage, those that carry a material
\* and those that carry a synthetic pointer are exactly the entities with an
\* Active Portal, whatever attaches, detaches and despawns came before
C29_ComponentsOnlyOnActivePortals ==
    plugin = "PortalCameraPlugin" =>
        /\ DOMAIN portalImage = ActivePortals
        /\ DOMAIN material = ActivePortals
        /\ DOMAIN pointer = ActivePortals

\* C30: in every run of portal_picking, a pair that is neither hovered nor
\* dragged is in the forwarding set exactly when it was being dragged at the
\* run before: a drag that ended outside the portal is carried over into one
\* run and not into the one after it
C30_CarryOverLastsOneRun ==
    [][RunsPick("Last") =>
          \A pr \in Pairs :
              (pr \notin Hovered /\ pr \notin Dragged) =>
                  (pr \in Portals <=> pr \in picked.dragged)]_vars

\* a run has forwarded an input for a pair that was neither hovered nor
\* dragged any more
C30_Witness ==
    /\ stage = Len(PickSets) + 1
    /\ hover_map = {} /\ pointer_state = {}
    /\ picked.sent # <<>>

====
